---- MODULE Spec2Model ----
(***************************************************************************)
(* Batch translation orchestration of gslides-translator (src/app13.py):   *)
(* deduplication, token-bounded partitioning, per-batch translation with   *)
(* retry, checkpointing to a recovery file, retry of failed batches in     *)
(* smaller chunks, the final catch-up call, and resumption from a          *)
(* recovery file after the process was killed.                             *)
(*                                                                         *)
(* Python dicts are insertion ordered.  A dict whose order matters         *)
(* (text_dict, the input and the output of the partitioner, a batch) is a  *)
(* sequence of <<key, value>> pairs; a dict that is only looked up and     *)
(* updated (translated_items, duplicates_map, the result) is a function.   *)
(***************************************************************************)
EXTENDS Integers, Sequences, FiniteSets, TLC

(***************************************************************************)
(* Bounds of the model.                                                    *)
(***************************************************************************)
MaxFragments == 3      \* fragments in the document
MaxCrashes == 1        \* times the process is killed and resumed
MaxFaults == 2         \* calls of translate_batch (or final calls) the backend fails
MaxPartItems == 3      \* fragments handed to the partitioner on its own
PartMaxTokens == 40    \* a small max_input_tokens for the partitioner on its own
PartPromptTokens == 5  \* a small prompt_tokens for the partitioner on its own

(***************************************************************************)
(* Program constants.                                                      *)
(***************************************************************************)
MAX_INPUT_TOKENS == 150000   \* translate_text's max_input_tokens argument
PROMPT_TOKENS == 2000        \* translate_text's prompt_tokens argument
JSON_FORMAT_TOKENS == 10     \* "+10 for JSON formatting"
CHARS_PER_TOKEN == 4         \* "roughly 4 characters per token"
BATCH_MAX_RETRIES == 2       \* translate_batch's default max_retries
SUB_MAX_RETRIES == 3         \* max_retries of a sub-batch call
MIN_CHUNK == 5               \* chunk_size = max(5, ...)
CHUNK_DIVISOR == 4           \* chunk_size = max(..., len // 4)

(***************************************************************************)
(* Fragment ids in extraction order, a key the document does not contain   *)
(* (the backend may answer with it), and the texts.  A text is named by a  *)
(* string; the capitalised names stand for texts too long to spell   *)
(* out, the length of which TextLen gives.                                 *)
(***************************************************************************)
KeyOrder == <<"s1", "s2", "s3", "s4">>
ForeignKey == "zz"
Texts == {"Hello", "LONG", "LONG2"}
None == "<None>"             \* the value None: no text at all
PartTexts == Texts \cup {"World", "Good morning, everyone", "NEAR", "HUGE", "", None}

TextLen(t) ==
  CASE t = "LONG" -> 300000      \* two of these do not fit one batch
    [] t = "LONG2" -> 300000     \* another text of that length
    [] t = "NEAR" -> 592000      \* fits MAX_INPUT_TOKENS, not with the prompt
    [] t = "HUGE" -> 600000      \* alone exceeds MAX_INPUT_TOKENS
    [] OTHER -> Len(t)

EmptyDict == [k \in {} |-> ""]

Max(a, b) == IF a >= b THEN a ELSE b

\* F of the value of e: a local variable that is assigned once
With(e, F(_)) == CHOOSE result \in {F(x) : x \in {e}} : TRUE

Range(s) == {s[i] : i \in 1..Len(s)}

\* keys of an ordered dict
KeysOf(items) == {items[i][1] : i \in 1..Len(items)}

\* dict.items() of a dict held as a function, in extraction order
ItemsOf(d) ==
  LET ks == SelectSeq(KeyOrder, LAMBDA k : k \in DOMAIN d)
  IN [i \in 1..Len(ks) |-> <<ks[i], d[ks[i]]>>]

\* the function of an ordered dict
DictOf(items) ==
  [k \in KeysOf(items) |->
     LET i == CHOOSE j \in 1..Len(items) : items[j][1] = k IN items[i][2]]

\* a slip: the dict is replaced by the other
Assigned(d, other) == other

\* dict.update(other)
Update(d, other) ==
  [k \in DOMAIN d \cup DOMAIN other |-> IF k \in DOMAIN other THEN other[k] ELSE d[k]]

(***************************************************************************)
(* split_dict_into_smart_batches                                           *)
(***************************************************************************)
estimate_tokens(text) ==
  IF text = None THEN 0
  ELSE (TextLen(text) \div CHARS_PER_TOKEN) + 1

\* a slip: the value's tokens are left out of an item's cost
item_tokens_without_value(item) == estimate_tokens(item[1]) + JSON_FORMAT_TOKENS

item_tokens(item) ==
  estimate_tokens(item[1]) + estimate_tokens(item[2]) + JSON_FORMAT_TOKENS

\* items.sort(key=estimate_tokens(value), reverse=True): stable, descending
RECURSIVE SortedInsert(_, _)
SortedInsert(sorted, item) ==
  IF sorted = <<>> THEN <<item>>
  ELSE IF estimate_tokens(Head(sorted)[2]) >= estimate_tokens(item[2])
       THEN <<Head(sorted)>> \o SortedInsert(Tail(sorted), item)
       ELSE <<item>> \o sorted

RECURSIVE SortItems(_)
SortItems(items) ==
  IF items = <<>> THEN <<>>
  ELSE With(SortItems(SubSeq(items, 1, Len(items) - 1)),
            LAMBDA sorted : SortedInsert(sorted, items[Len(items)]))

\* a slip: the batch is closed whether it holds an item or not
SplitStepClosesEmpty(acc, item, max_input_tokens, prompt_tokens) ==
  LET close == acc.current_token_count + item_tokens(item) > max_input_tokens
      opened == IF close
                THEN [batches |-> Append(acc.batches, acc.current_batch),
                      current_batch |-> <<>>,
                      current_token_count |-> prompt_tokens]
                ELSE acc
  IN [batches |-> opened.batches,
      current_batch |-> Append(opened.current_batch, item),
      current_token_count |-> opened.current_token_count + item_tokens(item)]

\* one pass of the for loop: acc is [batches, current_batch, current_token_count]
SplitStep(acc, item, max_input_tokens, prompt_tokens) ==
  LET close == /\ acc.current_token_count + item_tokens(item) > max_input_tokens
               /\ acc.current_batch # <<>>
      opened == IF close
                THEN [batches |-> Append(acc.batches, acc.current_batch),
                      current_batch |-> <<>>,
                      current_token_count |-> prompt_tokens]
                ELSE acc
  IN [batches |-> opened.batches,
      current_batch |-> Append(opened.current_batch, item),
      current_token_count |-> opened.current_token_count + item_tokens(item)]

RECURSIVE SplitLoop(_, _, _, _)
SplitLoop(items, acc, max_input_tokens, prompt_tokens) ==
  IF items = <<>> THEN acc
  ELSE With(SplitStep(acc, Head(items), max_input_tokens, prompt_tokens),
            LAMBDA next : SplitLoop(Tail(items), next, max_input_tokens, prompt_tokens))

\* a slip: the batch still open when the loop ends is not appended
split_without_last_batch(input_dict, max_input_tokens, prompt_tokens) ==
  With(SortItems(input_dict),
       LAMBDA items :
         SplitLoop(items,
                   [batches |-> <<>>, current_batch |-> <<>>,
                    current_token_count |-> prompt_tokens],
                   max_input_tokens, prompt_tokens).batches)

split_dict_into_smart_batches(input_dict, max_input_tokens, prompt_tokens) ==
  With(SortItems(input_dict),
       LAMBDA items :
         With(SplitLoop(items,
                        [batches |-> <<>>, current_batch |-> <<>>,
                         current_token_count |-> prompt_tokens],
                        max_input_tokens, prompt_tokens),
              LAMBDA acc :
                IF acc.current_batch # <<>> THEN Append(acc.batches, acc.current_batch)
                ELSE acc.batches))

\* the closing report of split_dict_into_smart_batches divides by
\* total_items = len(input_dict): an empty input_dict raises
ZeroDivisionError(input_dict) == Len(input_dict) = 0

(***************************************************************************)
(* deduplicate_content                                                     *)
(***************************************************************************)
\* content_to_keys: a sequence of <<content, keys>> in first-seen order;
\* one pass of "for key, value in input_dict.items()"
\* a slip: the latest key of a content is put first
AddContentFirst(prev, key, value) ==
  IF \E i \in 1..Len(prev) : prev[i][1] = value
  THEN [i \in 1..Len(prev) |->
          IF prev[i][1] = value THEN <<value, <<key>> \o prev[i][2]>>
          ELSE prev[i]]
  ELSE Append(prev, <<value, <<key>>>>)

AddContent(prev, key, value) ==
  IF \E i \in 1..Len(prev) : prev[i][1] = value
  THEN [i \in 1..Len(prev) |->
          IF prev[i][1] = value THEN <<value, Append(prev[i][2], key)>>
          ELSE prev[i]]
  ELSE Append(prev, <<value, <<key>>>>)

RECURSIVE ContentToKeys(_)
ContentToKeys(items) ==
  IF items = <<>> THEN <<>>
  ELSE With(ContentToKeys(SubSeq(items, 1, Len(items) - 1)),
            LAMBDA prev : AddContent(prev, items[Len(items)][1], items[Len(items)][2]))

\* unique_content and duplicates_map, from content_to_keys
Deduplicated(input_dict, content_to_keys) ==
  [unique_content |->
     [i \in 1..Len(content_to_keys) |->
        <<content_to_keys[i][2][1], content_to_keys[i][1]>>],
   duplicates_map |->
     [k \in KeysOf(input_dict) |->
        LET i == CHOOSE j \in 1..Len(content_to_keys) : k \in Range(content_to_keys[j][2])
        IN content_to_keys[i][2][1]]]

deduplicate_content(input_dict) ==
  With(input_dict,
       LAMBDA items :
         With(ContentToKeys(items),
              LAMBDA content_to_keys : Deduplicated(items, content_to_keys)))


(***************************************************************************)
(* The backend.  One call gets a payload (an ordered dict) and ends in an  *)
(* exception, in a text that no parsing strategy can read, or in a text    *)
(* that parses to a mapping.  The mapping may leave payload keys out and   *)
(* may hold keys that were not asked for; its values are the translation   *)
(* ("fr") or another rendering ("alt") of the fragment's text.             *)
(***************************************************************************)
Variants == {"fr", "alt"}
FailureKinds == {"exception", "malformed"}

Exception == [kind |-> "exception", keys |-> {}, variant |-> "fr"]
Malformed == [kind |-> "malformed", keys |-> {}, variant |-> "fr"]
Parsed(S, v) == [kind |-> "ok", keys |-> S, variant |-> v]

VARIABLES
  text_dict,               \* the FragmentSet given to translate_text
  pc,                      \* where translate_text stands
  after,                   \* where it goes on once the recovery file is written
  disk,                    \* the recovery file
  recovery_state,          \* the recovery state in memory
  unique_text_dict,
  duplicates_map,
  batches,
  batch_index,             \* 1-based position in batches
  retry,                   \* translate_batch's loop variable
  unique_translated_dict,
  full_translated_dict,
  failed_list,             \* list(recovery_state["failed_batches"]) being iterated
  failed_index,
  sub_batches,
  sub_index,
  last_outcome,            \* how the latest backend call of this run ended
  crashes,                 \* times the process has been killed
  faults,                  \* calls of translate_batch the backend has failed so far
  recorded,                \* history: <<batch id, keys>> of every batch marked completed
  answered,                \* history: payload keys the backend answered in this run
  stub_run,                \* history: every backend call so far ended as StubOutcome says
  lost,                    \* history: translated keys in memory but not on disk at the kill
  killed_in,               \* history: the phase the process was killed in
  in_flight,               \* history: keys of the latest merged response
  sweep_calls,             \* history: payload keys of the final calls of this run
  calls,                   \* history: backend calls of the latest translate_batch
  omitted,                 \* history: payload keys that parsed responses of this run left out
  part_in,                 \* arguments of a partitioner call on its own
  part_out,                \* its result
  parse_in,                \* a response text handed to the parsing on its own
  parse_out,               \* its result
  api_key,                 \* whether a backend key is given or in CLAUDE_API_KEY
  repair_in,               \* a written response handed to repair_json on its own
  repair_out,              \* its result
  translation_state,       \* web-ui: the state the request handlers and jobs share
  request_pc,              \* web-ui: where the handler of each /translate request stands
  thread_pc,               \* web-ui: where the job thread of each request stands
  estimate_in,             \* two texts of one length handed to the wide-script estimate
  estimate_out             \* their estimates

vars == <<text_dict, pc, after, disk, recovery_state, unique_text_dict, duplicates_map,
          batches, batch_index, retry, unique_translated_dict, full_translated_dict,
          failed_list, failed_index, sub_batches, sub_index, last_outcome, crashes,
          faults, recorded, answered, stub_run, lost, killed_in, in_flight,
          sweep_calls, calls, omitted, part_in, part_out, parse_in,
          parse_out, api_key, repair_in, repair_out, translation_state,
          request_pc, thread_pc, estimate_in, estimate_out>>

locals == <<unique_text_dict, duplicates_map, batches, batch_index, retry,
            unique_translated_dict, full_translated_dict, failed_list, failed_index,
            sub_batches, sub_index>>

history == <<recorded, answered, stub_run, lost, killed_in, in_flight, sweep_calls,
            calls, omitted>>

part_vars == <<part_in, part_out>>

parse_vars == <<parse_in, parse_out>>

\* what the steps of the job leave alone: the functions run on their own
\* and the configuration
repair_vars == <<repair_in, repair_out>>

web_vars == <<translation_state, request_pc, thread_pc>>

estimate_vars == <<estimate_in, estimate_out>>

alone_vars == <<part_vars, parse_vars, api_key, repair_vars, web_vars, estimate_vars>>

\* the value the backend gives for key k in rendering v
Rendering(k, v) == <<v, IF k \in DOMAIN text_dict THEN text_dict[k] ELSE "?">>

\* the mapping a parsed response holds
ResponseDict(out) == [k \in out.keys |-> Rendering(k, out.variant)]

\* The ways one backend call for a payload can end: the keys asked for,
\* translated; those without the first of them (an omission); those and a key
\* the document does not have; every key of the document, asked for or not,
\* in another rendering; a text that cannot be parsed; an exception.
Faithful(payload) == Parsed(KeysOf(payload), "fr")

Outcomes(payload) ==
  {Exception,
   Malformed,
   Faithful(payload),
   Parsed(KeysOf(payload) \ {payload[1][1]}, "fr"),
   Parsed(KeysOf(payload) \cup {ForeignKey}, "fr"),
   Parsed(DOMAIN text_dict, "alt")}

RECURSIVE SumTokens(_)
SumTokens(items) ==
  IF items = <<>> THEN 0 ELSE item_tokens(Head(items)) + SumTokens(Tail(items))

\* A deterministic stub of the backend: it translates every key of a payload
\* that is within the request ceiling the batches are cut for, and rejects
\* a larger payload.
StubOutcome(payload) ==
  IF PROMPT_TOKENS + SumTokens(payload) <= MAX_INPUT_TOKENS
  THEN Parsed(KeysOf(payload), "fr")
  ELSE Exception

(***************************************************************************)
(* The recovery state and the recovery file                                *)
(***************************************************************************)
NewRecoveryState ==
  [completed_batches |-> <<>>,
   failed_batches |-> <<>>,
   translated_items |-> EmptyDict,
   has_duplicates_map |-> FALSE,
   duplicates_map |-> EmptyDict,
   total_items |-> Cardinality(DOMAIN text_dict)]

NoState ==
  [completed_batches |-> <<>>, failed_batches |-> <<>>, translated_items |-> EmptyDict,
   has_duplicates_map |-> FALSE, duplicates_map |-> EmptyDict, total_items |-> 0]

NoFile == [status |-> "none", content |-> NoState]
EmptyFile == [status |-> "empty", content |-> NoState]
PartialFile == [status |-> "partial", content |-> NoState]
ValidFile(state) == [status |-> "valid", content |-> state]

ResetLocals ==
  /\ unique_text_dict' = <<>>
  /\ duplicates_map' = EmptyDict
  /\ batches' = <<>>
  /\ batch_index' = 0
  /\ retry' = 0
  /\ unique_translated_dict' = EmptyDict
  /\ full_translated_dict' = EmptyDict
  /\ failed_list' = <<>>
  /\ failed_index' = 0
  /\ sub_batches' = <<>>
  /\ sub_index' = 0

\* batch_id = f"batch_{batch_index+1}", sub_id = f"{batch_id}_sub_{i+1}"
BatchId(i) == <<i>>
SubId(batch_id, i) == batch_id \o <<i>>

\* with open(recovery_file, 'w') as f: json.dump(recovery_state, f) is
\* three steps for the file: truncated by open, written in part when the
\* buffer is flushed, complete at close.
save_recovery_state(next) ==
  /\ pc' = "save_open"
  /\ after' = next

SaveOpen ==
  /\ pc = "save_open"
  /\ disk' = EmptyFile
  /\ pc' = "save_write"
  /\ UNCHANGED <<text_dict, after, recovery_state, locals, last_outcome, crashes, faults,
                 history, alone_vars>>

SaveFlush ==
  /\ pc = "save_write"
  /\ disk = EmptyFile
  /\ disk' = PartialFile
  /\ UNCHANGED <<text_dict, pc, after, recovery_state, locals, last_outcome, crashes, faults,
                 history, alone_vars>>

SaveClose ==
  /\ pc = "save_write"
  /\ disk' = ValidFile(recovery_state)
  /\ pc' = after
  /\ after' = ""
  /\ in_flight' = {}
  /\ UNCHANGED <<text_dict, recovery_state, locals, last_outcome, crashes, faults,
                 recorded, answered, stub_run, calls, lost, killed_in, sweep_calls, omitted,
                 alone_vars>>

(***************************************************************************)
(* list_recovery_files: the progress shown for a recovery file,            *)
(* (translated / total * 100) if total > 0 else 0, as "{progress:.1f}%"    *)
(* prints it: in tenths of a percent, rounded to the nearest               *)
(***************************************************************************)
progress(data) ==
  IF data.total_items > 0
  THEN (2000 * Cardinality(DOMAIN data.translated_items) + data.total_items)
         \div (2 * data.total_items)
  ELSE 0

(***************************************************************************)
(* translate_text: api_key = api_key or os.getenv("CLAUDE_API_KEY")        *)
(***************************************************************************)
\* a slip: the job is started whether there is a key or not
StartUnchecked ==
  /\ pc = "start"
  /\ pc' = "setup"
  /\ UNCHANGED <<text_dict, after, disk, recovery_state, locals, last_outcome, crashes,
                 faults, history, alone_vars>>

\* if not api_key: raise ValueError(...)
CheckApiKey ==
  /\ pc = "start"
  /\ pc' = IF api_key THEN "setup" ELSE "config_error"
  /\ UNCHANGED <<text_dict, after, disk, recovery_state, locals, last_outcome, crashes,
                 faults, history, alone_vars>>

(***************************************************************************)
(* setup_recovery_system                                                   *)
(***************************************************************************)
\* no resume file (or none that exists): a new recovery state and file
SetupNew ==
  /\ pc = "setup"
  /\ recovery_state' = NewRecoveryState
  /\ save_recovery_state("dedupe")
  /\ UNCHANGED <<text_dict, disk, locals, last_outcome, crashes, faults, history, alone_vars>>

\* the run after a kill is started with --resume <the recovery file>; the
\* key that the killed run had is there
SetupResume ==
  /\ pc = "crashed"
  /\ IF disk.status = "none"
     THEN /\ pc' = "setup"
          /\ UNCHANGED <<recovery_state, lost>>
     ELSE IF disk.status = "valid"
     THEN /\ recovery_state' = disk.content
          /\ pc' = "dedupe"
          /\ lost' = {}
     ELSE /\ pc' = "aborted"       \* json.load raises
          /\ UNCHANGED <<recovery_state, lost>>
  /\ UNCHANGED <<text_dict, after, disk, locals, last_outcome, crashes, faults, recorded,
                 answered, stub_run, calls, killed_in, sweep_calls, in_flight, omitted,
                 alone_vars>>

(***************************************************************************)
(* translate_text, up to the batch loop                                    *)
(***************************************************************************)
\* a slip: the resumed run deduplicates what it has left to do and keeps that
DedupeAgain ==
  /\ pc = "dedupe"
  /\ IF DOMAIN recovery_state.translated_items = {}
     THEN \E dd \in {deduplicate_content(ItemsOf(text_dict))} :
             /\ unique_text_dict' = dd.unique_content
             /\ duplicates_map' = dd.duplicates_map
             /\ recovery_state' = [recovery_state EXCEPT !.has_duplicates_map = TRUE,
                                                          !.duplicates_map = dd.duplicates_map]
             /\ save_recovery_state("partition")
     ELSE IF ~recovery_state.has_duplicates_map
     THEN /\ pc' = "aborted"
          /\ UNCHANGED <<after, recovery_state, unique_text_dict, duplicates_map>>
     ELSE LET rep_keys == {recovery_state.duplicates_map[k] :
                             k \in DOMAIN recovery_state.duplicates_map}
          IN \E dd \in {deduplicate_content(
                           SelectSeq(ItemsOf(text_dict),
                                     LAMBDA item : item[1] \notin rep_keys))} :
               /\ unique_text_dict' = dd.unique_content
               /\ duplicates_map' = dd.duplicates_map
               /\ recovery_state' = [recovery_state EXCEPT
                                       !.duplicates_map = dd.duplicates_map]
               /\ pc' = "partition"
               /\ UNCHANGED after
  /\ UNCHANGED <<text_dict, disk, batches, batch_index, retry, unique_translated_dict,
                 full_translated_dict, failed_list, failed_index, sub_batches, sub_index,
                 last_outcome, crashes, faults, history, alone_vars>>

\* if not recovery_state["translated_items"]: ... else: ...
Dedupe ==
  /\ pc = "dedupe"
  /\ IF DOMAIN recovery_state.translated_items = {}
     THEN \E dd \in {deduplicate_content(ItemsOf(text_dict))} :
             /\ unique_text_dict' = dd.unique_content
             /\ duplicates_map' = dd.duplicates_map
             /\ recovery_state' = [recovery_state EXCEPT !.has_duplicates_map = TRUE,
                                                          !.duplicates_map = dd.duplicates_map]
             /\ save_recovery_state("partition")
     ELSE IF ~recovery_state.has_duplicates_map
     THEN /\ pc' = "aborted"         \* KeyError: 'duplicates_map'
          /\ UNCHANGED <<after, recovery_state, unique_text_dict, duplicates_map>>
     ELSE LET rep_keys == {recovery_state.duplicates_map[k] :
                             k \in DOMAIN recovery_state.duplicates_map}
          IN /\ unique_text_dict' =
                  SelectSeq(ItemsOf(text_dict), LAMBDA item : item[1] \notin rep_keys)
             /\ duplicates_map' = recovery_state.duplicates_map
             /\ pc' = "partition"
             /\ UNCHANGED <<after, recovery_state>>
  /\ UNCHANGED <<text_dict, disk, batches, batch_index, retry, unique_translated_dict,
                 full_translated_dict, failed_list, failed_index, sub_batches, sub_index,
                 last_outcome, crashes, faults, history, alone_vars>>

remaining_dict ==
  SelectSeq(unique_text_dict,
            LAMBDA item : item[1] \notin DOMAIN recovery_state.translated_items)

\* if not remaining_dict: ... else: batches = split_dict_into_smart_batches(...)
Partition ==
  /\ pc = "partition"
  /\ IF remaining_dict = <<>>
     THEN /\ full_translated_dict' = recovery_state.translated_items
          /\ pc' = "sweep"
          /\ UNCHANGED <<batches, batch_index, unique_translated_dict>>
     ELSE /\ \E remaining \in {remaining_dict} :
               batches' = split_dict_into_smart_batches(remaining, MAX_INPUT_TOKENS,
                                                        PROMPT_TOKENS)
          /\ unique_translated_dict' = recovery_state.translated_items
          /\ batch_index' = 1
          /\ pc' = "loop"
          /\ UNCHANGED full_translated_dict
  /\ UNCHANGED <<text_dict, after, disk, recovery_state, unique_text_dict, duplicates_map,
                 retry, failed_list, failed_index, sub_batches, sub_index, last_outcome,
                 crashes, faults, history, alone_vars>>

(***************************************************************************)
(* translate_batch: one pass of "for retry in range(max_retries + 1)".     *)
(* A response that parses is returned; a failure is retried while          *)
(* retry < max_retries and raised otherwise.                               *)
(***************************************************************************)
\* a slip: one attempt more than range(max_retries + 1) gives
translate_batch_one_more(out, max_retries) ==
  IF out.kind = "ok" THEN "return"
  ELSE IF retry <= max_retries THEN "retry" ELSE "raise"

translate_batch(out, max_retries) ==
  IF out.kind = "ok" THEN "return"
  ELSE IF retry < max_retries THEN "retry" ELSE "raise"

\* what every backend call leaves in the history
Called(payload, out) ==
  /\ out = Faithful(payload) \/ retry > 0 \/ faults < MaxFaults
  /\ faults' = IF out # Faithful(payload) /\ retry = 0 THEN faults + 1 ELSE faults
  /\ last_outcome' = out.kind
  /\ stub_run' = (stub_run /\ out = StubOutcome(payload))
  /\ calls' = IF retry = 0 THEN 1 ELSE calls + 1

Merged(payload, out) ==
  /\ answered' = answered \cup (out.keys \cap KeysOf(payload))
  /\ in_flight' = out.keys
  /\ omitted' = omitted \cup (KeysOf(payload) \ out.keys)

(***************************************************************************)
(* TRANSLATING: for batch_index, batch in enumerate(batches)               *)
(***************************************************************************)
InLoop == pc = "loop" /\ batch_index <= Len(batches)

Skipped == BatchId(batch_index) \in Range(recovery_state.completed_batches)

SkipBatch ==
  /\ InLoop
  /\ Skipped
  /\ batch_index' = batch_index + 1
  /\ UNCHANGED <<text_dict, pc, after, disk, recovery_state, unique_text_dict,
                 duplicates_map, batches, retry, unique_translated_dict,
                 full_translated_dict, failed_list, failed_index, sub_batches, sub_index,
                 last_outcome, crashes, faults, history, alone_vars>>

BatchRetry ==
  /\ InLoop
  /\ ~Skipped
  /\ \E out \in Outcomes(batches[batch_index]) :
       /\ translate_batch(out, BATCH_MAX_RETRIES) = "retry"
       /\ Called(batches[batch_index], out)
  /\ retry' = retry + 1
  /\ UNCHANGED <<text_dict, pc, after, disk, recovery_state, unique_text_dict,
                 duplicates_map, batches, batch_index, unique_translated_dict,
                 full_translated_dict, failed_list, failed_index, sub_batches, sub_index,
                 crashes, recorded, answered, lost, killed_in, sweep_calls, in_flight, omitted,
                 alone_vars>>

\* the try block after translate_batch has returned
BatchSucceeded(batch_result) ==
  /\ unique_translated_dict' = Update(unique_translated_dict, batch_result)
  /\ recovery_state' =
       [recovery_state EXCEPT
          !.translated_items = Update(@, batch_result),
          !.completed_batches = Append(@, BatchId(batch_index))]
  /\ save_recovery_state("loop")

\* a slip: the exception of translate_batch is not caught
BatchFailedAborts(error) ==
  /\ pc' = "aborted"
  /\ UNCHANGED <<after, recovery_state, unique_translated_dict>>

\* a slip: the failed batch is recorded without its keys
BatchFailedWithoutKeys(error) ==
  /\ recovery_state' =
       [recovery_state EXCEPT
          !.failed_batches =
             Append(@, [batch_id |-> BatchId(batch_index), keys |-> <<>>,
                        error |-> error])]
  /\ save_recovery_state("loop")
  /\ UNCHANGED unique_translated_dict

\* except Exception as e
BatchFailed(error) ==
  /\ recovery_state' =
       [recovery_state EXCEPT
          !.failed_batches =
             Append(@, [batch_id |-> BatchId(batch_index),
                        keys |-> [i \in 1..Len(batches[batch_index]) |->
                                    batches[batch_index][i][1]],
                        error |-> error])]
  /\ save_recovery_state("loop")
  /\ UNCHANGED unique_translated_dict

BatchReturn ==
  /\ InLoop
  /\ ~Skipped
  /\ \E out \in Outcomes(batches[batch_index]) :
       /\ translate_batch(out, BATCH_MAX_RETRIES) = "return"
       /\ Called(batches[batch_index], out)
       /\ Merged(batches[batch_index], out)
       /\ BatchSucceeded(ResponseDict(out))
  /\ recorded' = recorded \cup {<<BatchId(batch_index), KeysOf(batches[batch_index])>>}
  /\ batch_index' = batch_index + 1
  /\ retry' = 0
  /\ UNCHANGED <<text_dict, disk, unique_text_dict, duplicates_map, batches,
                 full_translated_dict, failed_list, failed_index, sub_batches, sub_index,
                 crashes, lost, killed_in, sweep_calls, alone_vars>>

BatchRaise ==
  /\ InLoop
  /\ ~Skipped
  /\ \E out \in Outcomes(batches[batch_index]) :
       /\ translate_batch(out, BATCH_MAX_RETRIES) = "raise"
       /\ Called(batches[batch_index], out)
       /\ BatchFailed(out.kind)
  /\ batch_index' = batch_index + 1
  /\ retry' = 0
  /\ UNCHANGED <<text_dict, disk, unique_text_dict, duplicates_map, batches,
                 full_translated_dict, failed_list, failed_index, sub_batches, sub_index,
                 crashes, recorded, answered, lost, killed_in, sweep_calls, in_flight, omitted,
                 alone_vars>>

\* the loop is over: if recovery_state["failed_batches"]: for failed_batch in list(...)
LoopExit ==
  /\ pc = "loop"
  /\ batch_index > Len(batches)
  /\ failed_list' = recovery_state.failed_batches
  /\ failed_index' = 1
  /\ pc' = "reconcile"
  /\ UNCHANGED <<text_dict, after, disk, recovery_state, unique_text_dict, duplicates_map,
                 batches, batch_index, retry, unique_translated_dict,
                 full_translated_dict, sub_batches, sub_index, last_outcome, crashes, faults,
                 history, alone_vars>>

(***************************************************************************)
(* RECONCILING_FAILURES: every failed batch again, in smaller chunks       *)
(***************************************************************************)
\* [dict(retry_items[i:i+chunk_size]) for i in range(0, len(retry_items), chunk_size)]
Chunks(items, chunk_size) ==
  [i \in 1..((Len(items) + chunk_size - 1) \div chunk_size) |->
     SubSeq(items, (i - 1) * chunk_size + 1,
            IF i * chunk_size < Len(items) THEN i * chunk_size ELSE Len(items))]

\* retry_batch, chunk_size and sub_batches of one failed batch
SubBatchesOf(failed_batch) ==
  LET keys == SelectSeq(failed_batch.keys, LAMBDA k : k \in DOMAIN text_dict)
      retry_items == [i \in 1..Len(keys) |-> <<keys[i], text_dict[keys[i]]>>]
      chunk_size == Max(MIN_CHUNK, Len(retry_items) \div CHUNK_DIVISOR)
  IN Chunks(retry_items, chunk_size)

\* list.remove(x): the first element equal to x
RemoveFirst(seq, x) ==
  LET i == CHOOSE j \in 1..Len(seq) :
             seq[j] = x /\ \A h \in 1..(j - 1) : seq[h] # x
  IN SubSeq(seq, 1, i - 1) \o SubSeq(seq, i + 1, Len(seq))

ReconcileNext ==
  /\ pc = "reconcile"
  /\ failed_index <= Len(failed_list)
  /\ sub_batches' = SubBatchesOf(failed_list[failed_index])
  /\ sub_index' = 1
  /\ pc' = "sub"
  /\ UNCHANGED <<text_dict, after, disk, recovery_state, unique_text_dict, duplicates_map,
                 batches, batch_index, retry, unique_translated_dict,
                 full_translated_dict, failed_list, failed_index, last_outcome, crashes, faults,
                 history, alone_vars>>

ReconcileExit ==
  /\ pc = "reconcile"
  /\ failed_index > Len(failed_list)
  /\ pc' = "reconstruct"
  /\ UNCHANGED <<text_dict, after, disk, recovery_state, locals, last_outcome, crashes, faults,
                 history, alone_vars>>

InSub == pc = "sub" /\ sub_index <= Len(sub_batches)

CurrentSubId == SubId(failed_list[failed_index].batch_id, sub_index)

SubRetry ==
  /\ InSub
  /\ \E out \in Outcomes(sub_batches[sub_index]) :
       /\ translate_batch(out, SUB_MAX_RETRIES) = "retry"
       /\ Called(sub_batches[sub_index], out)
  /\ retry' = retry + 1
  /\ UNCHANGED <<text_dict, pc, after, disk, recovery_state, unique_text_dict,
                 duplicates_map, batches, batch_index, unique_translated_dict,
                 full_translated_dict, failed_list, failed_index, sub_batches, sub_index,
                 crashes, recorded, answered, lost, killed_in, sweep_calls, in_flight, omitted,
                 alone_vars>>

\* the try block after translate_batch has returned
SubSucceeded(sub_result) ==
  /\ unique_translated_dict' = Update(unique_translated_dict, sub_result)
  /\ recovery_state' =
       [recovery_state EXCEPT
          !.translated_items = Update(@, sub_result),
          !.completed_batches = Append(@, CurrentSubId)]
  /\ save_recovery_state("sub")

SubReturn ==
  /\ InSub
  /\ \E out \in Outcomes(sub_batches[sub_index]) :
       /\ translate_batch(out, SUB_MAX_RETRIES) = "return"
       /\ Called(sub_batches[sub_index], out)
       /\ Merged(sub_batches[sub_index], out)
       /\ SubSucceeded(ResponseDict(out))
  /\ recorded' = recorded \cup {<<CurrentSubId, KeysOf(sub_batches[sub_index])>>}
  /\ sub_index' = sub_index + 1
  /\ retry' = 0
  /\ UNCHANGED <<text_dict, disk, unique_text_dict, duplicates_map, batches, batch_index,
                 full_translated_dict, failed_list, failed_index, sub_batches, crashes,
                 lost, killed_in, sweep_calls, alone_vars>>

\* except Exception as e: ... continue
SubRaise ==
  /\ InSub
  /\ \E out \in Outcomes(sub_batches[sub_index]) :
       /\ translate_batch(out, SUB_MAX_RETRIES) = "raise"
       /\ Called(sub_batches[sub_index], out)
  /\ sub_index' = sub_index + 1
  /\ retry' = 0
  /\ UNCHANGED <<text_dict, pc, after, disk, recovery_state, unique_text_dict,
                 duplicates_map, batches, batch_index, unique_translated_dict,
                 full_translated_dict, failed_list, failed_index, sub_batches, crashes,
                 recorded, answered, lost, killed_in, sweep_calls, in_flight, omitted, alone_vars>>

\* after the sub-batches: recovery_state["failed_batches"].remove(failed_batch)
AfterSubBatches(failed_batch) ==
  IF failed_batch \in Range(recovery_state.failed_batches)
  THEN /\ recovery_state' =
            [recovery_state EXCEPT !.failed_batches = RemoveFirst(@, failed_batch)]
       /\ save_recovery_state("reconcile")
  ELSE /\ pc' = "aborted"           \* ValueError: list.remove(x): x not in list
       /\ UNCHANGED <<after, recovery_state>>

SubExit ==
  /\ pc = "sub"
  /\ sub_index > Len(sub_batches)
  /\ AfterSubBatches(failed_list[failed_index])
  /\ failed_index' = failed_index + 1
  /\ UNCHANGED <<text_dict, disk, unique_text_dict, duplicates_map, batches, batch_index,
                 retry, unique_translated_dict, full_translated_dict, failed_list,
                 sub_batches, sub_index, last_outcome, crashes, faults, history, alone_vars>>

(***************************************************************************)
(* Re-expansion of the duplicates and FINAL_SWEEP                          *)
(***************************************************************************)
Expand(unique_translated, dup_map) ==
  LET copied == {k \in DOMAIN dup_map :
                   dup_map[k] \in DOMAIN unique_translated /\ k # dup_map[k]}
  IN [k \in DOMAIN unique_translated \cup copied |->
        IF k \in copied THEN unique_translated[dup_map[k]] ELSE unique_translated[k]]

Reconstruct ==
  /\ pc = "reconstruct"
  /\ full_translated_dict' = Expand(unique_translated_dict, duplicates_map)
  /\ pc' = "sweep"
  /\ UNCHANGED <<text_dict, after, disk, recovery_state, unique_text_dict, duplicates_map,
                 batches, batch_index, retry, unique_translated_dict, failed_list,
                 failed_index, sub_batches, sub_index, last_outcome, crashes, faults, history,
                 alone_vars>>

missing_keys == DOMAIN text_dict \ DOMAIN full_translated_dict

\* a slip: the final call asks for every fragment again
whole_document == ItemsOf(text_dict)

missing_dict == SelectSeq(ItemsOf(text_dict), LAMBDA item : item[1] \in missing_keys)

\* else: print("All items successfully translated!")
SweepNothing ==
  /\ pc = "sweep"
  /\ missing_keys = {}
  /\ pc' = "done"
  /\ UNCHANGED <<text_dict, after, disk, recovery_state, locals, last_outcome, crashes, faults,
                 history, alone_vars>>

\* the one call for the missing keys succeeds
SweepReturn ==
  /\ pc = "sweep"
  /\ missing_keys # {}
  /\ \E out \in Outcomes(missing_dict) :
       /\ out.kind = "ok"
       /\ Called(missing_dict, out)
       /\ Merged(missing_dict, out)
       /\ full_translated_dict' = Update(full_translated_dict, ResponseDict(out))
       /\ recovery_state' =
            [recovery_state EXCEPT !.translated_items = Update(@, ResponseDict(out))]
  /\ sweep_calls' = Append(sweep_calls, KeysOf(missing_dict))
  /\ save_recovery_state("done")
  /\ UNCHANGED <<text_dict, disk, unique_text_dict, duplicates_map, batches, batch_index,
                 retry, unique_translated_dict, failed_list, failed_index, sub_batches,
                 sub_index, crashes, recorded, lost, killed_in, alone_vars>>

\* except Exception as e: print(f"Failed to process final batch: {e}")
SweepRaise ==
  /\ pc = "sweep"
  /\ missing_keys # {}
  /\ \E out \in Outcomes(missing_dict) :
       /\ out.kind # "ok"
       /\ Called(missing_dict, out)
  /\ sweep_calls' = Append(sweep_calls, KeysOf(missing_dict))
  /\ pc' = "done"
  /\ UNCHANGED <<text_dict, after, disk, recovery_state, locals, crashes, recorded,
                 answered, lost, killed_in, in_flight, omitted, alone_vars>>

(***************************************************************************)
(* The process is killed                                                   *)
(***************************************************************************)
Running ==
  {"save_open", "save_write", "dedupe", "partition", "loop", "reconcile", "sub",
   "reconstruct", "sweep"}

Phase ==
  LET at == IF pc \in {"save_open", "save_write"} THEN after ELSE pc
  IN CASE at = "dedupe" -> "creating"
       [] at = "partition" -> "starting"
       [] at = "loop" -> "translating"
       [] at \in {"reconcile", "sub"} -> "reconciling"
       [] OTHER -> "sweeping"

Crash ==
  /\ pc \in Running
  /\ crashes < MaxCrashes
  /\ crashes' = crashes + 1
  /\ pc' = "crashed"
  /\ after' = ""
  /\ recovery_state' = NoState
  /\ ResetLocals
  /\ last_outcome' = "none"
  /\ answered' = {}
  /\ killed_in' = Phase
  /\ sweep_calls' = <<>>
  /\ calls' = 0
  /\ omitted' = {}
  /\ lost' = IF disk.status = "valid"
             THEN DOMAIN recovery_state.translated_items
                    \ DOMAIN disk.content.translated_items
             ELSE DOMAIN recovery_state.translated_items
  /\ UNCHANGED <<text_dict, disk, faults, recorded, stub_run, in_flight, alone_vars>>

(***************************************************************************)
(* The job                                                                 *)
(***************************************************************************)
Prefix(n) == {KeyOrder[i] : i \in 1..n}

(***************************************************************************)
(* The parsing of a response in translate_batch.  A response text is held  *)
(* as what each strategy finds in it: json.loads on the text (strict), on  *)
(* the text after the repairs of repair_json (repaired), the "key": value  *)
(* pairs the pattern of repair_json matches (pairs), and the blocks        *)
(* extract_json_blocks can load (blocks).  A strategy finds a mapping,     *)
(* given by its keys, or nothing.                                          *)
(***************************************************************************)
Nothing == [found |-> FALSE, keys |-> {}]
Mapping(S) == [found |-> TRUE, keys |-> S]

Mappings == {Mapping({}), Mapping({"s1"}), Mapping({"s1", "s2"})}

ResponseTexts ==
  [strict : Mappings \cup {Nothing}, repaired : Mappings \cup {Nothing},
   pairs : Mappings, blocks : Mappings \cup {Nothing}]

NoText == [strict |-> Nothing, repaired |-> Nothing, pairs |-> Mapping({}),
           blocks |-> Nothing]
NoParse == [result |-> Nothing, tried |-> <<>>]

\* extract_json_blocks: combined if valid_blocks, else None; translate_batch
\* takes it "if extracted_result", which an empty mapping is not
extract_json_blocks(text, tried) ==
  IF text.blocks.found /\ text.blocks.keys # {}
  THEN [result |-> text.blocks, tried |-> Append(tried, "blocks")]
  ELSE [result |-> Nothing, tried |-> Append(tried, "blocks")]

\* a slip: no block extraction after repair_json has raised
no_extract_json_blocks(text, tried) == [result |-> Nothing, tried |-> tried]

\* repair_json: json.loads again, the repairs and json.loads, then the
\* pairs of the pattern "if result", else raise
repair_json(text, tried) ==
  IF text.repaired.found
  THEN [result |-> text.repaired, tried |-> Append(tried, "repair")]
  ELSE IF text.pairs.keys # {}
  THEN [result |-> text.pairs, tried |-> tried \o <<"repair", "regex">>]
  ELSE [result |-> Nothing, tried |-> tried \o <<"repair", "regex">>]

\* try: json.loads / except: try: repair_json / except: extract_json_blocks
parse_response(text) ==
  IF text.strict.found
  THEN [result |-> text.strict, tried |-> <<"strict">>]
  ELSE With(repair_json(text, <<"strict">>),
            LAMBDA repaired :
              IF repaired.result.found THEN repaired
              ELSE extract_json_blocks(text, repaired.tried))

NoCall == [dict |-> <<>>, max_input_tokens |-> 0, prompt_tokens |-> 0]

(***************************************************************************)
(* web-ui.py: every POST to /translate is handled by start_translation,    *)
(* which starts translate_with_progress in a thread of its own.  The       *)
(* handlers and the threads share the dict translation_state.              *)
(***************************************************************************)
MaxRequests == 3

Requests == 1..MaxRequests

\* translation_state = {'running': False, ...} and no request yet
InitServer ==
  /\ translation_state = [running |-> FALSE]
  /\ request_pc = [r \in Requests |-> "none"]
  /\ thread_pc = [r \in Requests |-> "none"]

\* a POST to /translate arrives
Arrive(r) ==
  /\ pc = "web"
  /\ request_pc[r] = "none"
  /\ request_pc' = [request_pc EXCEPT ![r] = "check"]
  /\ UNCHANGED <<translation_state, thread_pc>>

\* if translation_state['running']: flash(...); return redirect(...)
CheckRunning(r) ==
  /\ pc = "web"
  /\ request_pc[r] = "check"
  /\ request_pc' = [request_pc EXCEPT
                      ![r] = IF translation_state.running THEN "refused" ELSE "form"]
  /\ UNCHANGED <<translation_state, thread_pc>>

\* if not presentation_id or not source_language or not target_language
CheckForm(r) ==
  /\ pc = "web"
  /\ request_pc[r] = "form"
  /\ \E filled \in BOOLEAN :
       request_pc' = [request_pc EXCEPT ![r] = IF filled THEN "start" ELSE "refused"]
  /\ UNCHANGED <<translation_state, thread_pc>>

\* thread = threading.Thread(target=translate_with_progress, ...); thread.start()
StartThread(r) ==
  /\ pc = "web"
  /\ request_pc[r] = "start"
  /\ thread_pc' = [thread_pc EXCEPT ![r] = "started"]
  /\ request_pc' = [request_pc EXCEPT ![r] = "answered"]
  /\ UNCHANGED translation_state

\* translate_with_progress: translation_state['running'] = True
ThreadBegin(r) ==
  /\ pc = "web"
  /\ thread_pc[r] = "started"
  /\ translation_state' = [translation_state EXCEPT !.running = TRUE]
  /\ thread_pc' = [thread_pc EXCEPT ![r] = "translating"]
  /\ UNCHANGED request_pc

\* finally: translation_state['running'] = False
ThreadEnd(r) ==
  /\ pc = "web"
  /\ thread_pc[r] = "translating"
  /\ translation_state' = [translation_state EXCEPT !.running = FALSE]
  /\ thread_pc' = [thread_pc EXCEPT ![r] = "finished"]
  /\ UNCHANGED request_pc

(***************************************************************************)
(* estimate_tokens of pptx_translator.py, for a text of ascii_chars narrow *)
(* and cjk_chars wide characters:                                          *)
(* int((ascii_chars // 4) + (cjk_chars // 1.5) + 1)                        *)
(***************************************************************************)
estimate_tokens_cjk(ascii_chars, cjk_chars) ==
  (ascii_chars \div CHARS_PER_TOKEN) + ((2 * cjk_chars) \div 3) + 1

NoTexts == [length |-> 0, cjk_a |-> 0, cjk_b |-> 0]

\* json.loads and repair_json return the pairs they have read, or raise
Raised == [ok |-> FALSE, pairs |-> <<>>]
Loaded(pairs) == [ok |-> TRUE, pairs |-> pairs]

NoResponse == [entries |-> <<>>, trailing_comma |-> FALSE]
NoResult == Raised

InitJob ==
  /\ after = ""
  /\ disk = NoFile
  /\ recovery_state = NoState
  /\ unique_text_dict = <<>>
  /\ duplicates_map = EmptyDict
  /\ batches = <<>>
  /\ batch_index = 0
  /\ retry = 0
  /\ unique_translated_dict = EmptyDict
  /\ full_translated_dict = EmptyDict
  /\ failed_list = <<>>
  /\ failed_index = 0
  /\ sub_batches = <<>>
  /\ sub_index = 0
  /\ last_outcome = "none"
  /\ crashes = 0
  /\ faults = 0
  /\ recorded = {}
  /\ answered = {}
  /\ stub_run = TRUE
  /\ lost = {}
  /\ killed_in = ""
  /\ in_flight = {}
  /\ sweep_calls = <<>>
  /\ calls = 0
  /\ omitted = {}

Init ==
  /\ \E n \in 0..MaxFragments : text_dict \in [Prefix(n) -> Texts]
  /\ pc = "start"
  /\ api_key \in BOOLEAN
  /\ InitJob
  /\ InitServer
  /\ estimate_in = NoTexts
  /\ estimate_out = <<>>
  /\ part_in = NoCall
  /\ part_out = <<>>
  /\ parse_in = NoText
  /\ parse_out = NoParse
  /\ repair_in = NoResponse
  /\ repair_out = NoResult

Next ==
  \/ CheckApiKey
  \/ SetupNew
  \/ SetupResume
  \/ SaveOpen
  \/ SaveFlush
  \/ SaveClose
  \/ Dedupe
  \/ Partition
  \/ SkipBatch
  \/ BatchRetry
  \/ BatchReturn
  \/ BatchRaise
  \/ LoopExit
  \/ ReconcileNext
  \/ ReconcileExit
  \/ SubRetry
  \/ SubReturn
  \/ SubRaise
  \/ SubExit
  \/ Reconstruct
  \/ SweepNothing
  \/ SweepReturn
  \/ SweepRaise
  \/ Crash

Spec == Init /\ [][Next]_vars

\* the program runs on unless it is killed; every backend call ends
Step ==
  \/ CheckApiKey
  \/ SetupNew
  \/ SetupResume
  \/ SaveOpen
  \/ SaveFlush
  \/ SaveClose
  \/ Dedupe
  \/ Partition
  \/ SkipBatch
  \/ BatchRetry
  \/ BatchReturn
  \/ BatchRaise
  \/ LoopExit
  \/ ReconcileNext
  \/ ReconcileExit
  \/ SubRetry
  \/ SubReturn
  \/ SubRaise
  \/ SubExit
  \/ Reconstruct
  \/ SweepNothing
  \/ SweepReturn
  \/ SweepRaise

FairSpec == Spec /\ WF_vars(Step)

(***************************************************************************)
(* The partitioner on its own: deduplicate_content and then                *)
(* split_dict_into_smart_batches, on any FragmentSet, with the ceiling of  *)
(* translate_text and with a small one.                                    *)
(***************************************************************************)
PartArgs ==
  {[max_input_tokens |-> MAX_INPUT_TOKENS, prompt_tokens |-> PROMPT_TOKENS],
   [max_input_tokens |-> PartMaxTokens, prompt_tokens |-> PartPromptTokens]}

InitPart ==
  /\ text_dict = EmptyDict
  /\ pc = "part"
  /\ InitJob
  /\ InitServer
  /\ estimate_in = NoTexts
  /\ estimate_out = <<>>
  /\ \E n \in 0..MaxPartItems, a \in PartArgs :
       \E d \in [Prefix(n) -> PartTexts] :
          part_in = [dict |-> ItemsOf(d), max_input_tokens |-> a.max_input_tokens,
                     prompt_tokens |-> a.prompt_tokens]
  /\ part_out = <<>>
  /\ parse_in = NoText
  /\ parse_out = NoParse
  /\ api_key = TRUE
  /\ repair_in = NoResponse
  /\ repair_out = NoResult

PartUnique == deduplicate_content(part_in.dict).unique_content

PartitionCall ==
  /\ pc = "part"
  /\ IF ZeroDivisionError(PartUnique)
     THEN /\ pc' = "part_raised"
          /\ UNCHANGED part_out
     ELSE /\ part_out' = split_dict_into_smart_batches(PartUnique,
                                                       part_in.max_input_tokens,
                                                       part_in.prompt_tokens)
          /\ pc' = "part_done"
  /\ UNCHANGED <<text_dict, after, disk, recovery_state, locals, last_outcome, crashes,
                 faults, history, part_in, parse_vars, api_key, repair_vars,
                 web_vars, estimate_vars>>

NextPart == PartitionCall

SpecPart == InitPart /\ [][NextPart]_vars

(***************************************************************************)
(* Properties                                                              *)
(***************************************************************************)
RECURSIVE SumTextTokens(_)
SumTextTokens(batch) ==
  IF batch = <<>> THEN 0
  ELSE estimate_tokens(Head(batch)[2]) + SumTextTokens(Tail(batch))

SubBatchIds(failed_batch) ==
  {SubId(failed_batch.batch_id, j) : j \in 1..Len(SubBatchesOf(failed_batch))}

\* what the stub gives for every fragment of the document
StubResult == [k \in DOMAIN text_dict |-> Rendering(k, "fr")]

\* At a batch boundary of TRANSLATING the recovery file holds the recovery
\* state in memory.
CheckpointMatchesMemory ==
  (pc = "loop" /\ retry = 0) => disk = ValidFile(recovery_state)

\* A run that is never killed and whose backend is the stub returns StubResult.
UninterruptedStubRun ==
  (pc = "done" /\ crashes = 0 /\ stub_run) => full_translated_dict = StubResult

\* A resumed run whose backend answered every call in full returns StubResult.
ResumedFaultlessRun ==
  (pc = "done" /\ faults = 0) => full_translated_dict = StubResult

\* C1: a failed batch one of whose sub-batches failed again (its sub-batch id
\* is not among the completed ones) is still in failed_batches when the job
\* is DONE.
C1_FailedBatchKeptUnlessAllSubBatchesSucceeded ==
  pc = "done" =>
    \A i \in 1..Len(failed_list) :
       ~(SubBatchIds(failed_list[i]) \subseteq Range(recovery_state.completed_batches))
         => failed_list[i] \in Range(recovery_state.failed_batches)

\* C2: when the process is killed after the recovery file was created, also
\* in the middle of save_recovery_state, the file holds a complete recovery
\* state: it is neither empty nor cut short.
C2_CheckpointNeverTruncated ==
  (pc = "crashed" /\ killed_in # "creating") => disk.status = "valid"

\* C3: a batch skipped because its batch id is among the completed ones has
\* the keys of every batch that was marked completed under that id.
C3_SkippedBatchIsTheCompletedOne ==
  (InLoop /\ Skipped) =>
    \A r \in recorded :
       r[1] = BatchId(batch_index) => r[2] = KeysOf(batches[batch_index])

\* C4: with the deterministic stub as the backend, a run killed in
\* TRANSLATING and resumed from its recovery file returns, once DONE, what
\* the run that is never killed returns.
C4_ResumedResultEqualsUninterrupted ==
  (pc = "done" /\ crashes > 0 /\ killed_in = "translating" /\ stub_run)
    => full_translated_dict = StubResult

\* C5: the batches made from the deduplicated FragmentSet hold every
\* representative id exactly once and no other id.
C5_ExactPartition ==
  pc = "part_done" =>
    /\ \A k \in KeysOf(PartUnique) :
          Cardinality({i \in 1..Len(part_out) : k \in KeysOf(part_out[i])}) = 1
    /\ \A i \in 1..Len(part_out) :
          /\ KeysOf(part_out[i]) \subseteq KeysOf(PartUnique)
          /\ Cardinality(KeysOf(part_out[i])) = Len(part_out[i])

\* C5 witness: duplicates were removed and the rest went to several batches
C5_Witness ==
  /\ pc = "part_done"
  /\ Len(PartUnique) < Len(part_in.dict)
  /\ Len(part_out) >= 2

\* C6 as stated: every batch is within max_input_tokens, its text tokens and
\* the prompt tokens summed, unless it is one fragment whose text alone
\* costs more than max_input_tokens.
C6_WithinCeilingUnlessOversizedAlone ==
  pc = "part_done" =>
    \A i \in 1..Len(part_out) :
       \/ SumTextTokens(part_out[i]) + part_in.prompt_tokens <= part_in.max_input_tokens
       \/ /\ Len(part_out[i]) = 1
          /\ estimate_tokens(part_out[i][1][2]) > part_in.max_input_tokens

\* C6 amended: ... unless it is one fragment whose text together with the
\* prompt tokens costs more than max_input_tokens.
C6_WithinCeilingUnlessAloneOverWithPrompt ==
  pc = "part_done" =>
    \A i \in 1..Len(part_out) :
       \/ SumTextTokens(part_out[i]) + part_in.prompt_tokens <= part_in.max_input_tokens
       \/ /\ Len(part_out[i]) = 1
          /\ estimate_tokens(part_out[i][1][2]) + part_in.prompt_tokens
               > part_in.max_input_tokens

\* C6 witness: a fragment within the ceiling on its own, over it with the
\* prompt, alone in its batch, beside a batch of several fragments
C6_Witness ==
  /\ pc = "part_done"
  /\ \E i \in 1..Len(part_out) :
        /\ Len(part_out[i]) = 1
        /\ estimate_tokens(part_out[i][1][2]) <= part_in.max_input_tokens
        /\ estimate_tokens(part_out[i][1][2]) + part_in.prompt_tokens
             > part_in.max_input_tokens
  /\ \E i \in 1..Len(part_out) : Len(part_out[i]) >= 2

\* C7: at every batch boundary of TRANSLATING the recovery file holds the
\* recovery state in memory, and a kill in TRANSLATING loses no translation
\* but those of the batch in flight.
C7_CheckpointAfterEachBatch ==
  /\ CheckpointMatchesMemory
  /\ (pc = "crashed" /\ killed_in = "translating") => lost \subseteq in_flight

\* C8: whatever the backend does, a run that has its recovery state ends
\* DONE unless the process is killed, and its result then holds every
\* payload key the backend answered.
C8_AlwaysReachesDone ==
  /\ (pc = "dedupe") ~> (pc \in {"done", "crashed"})
  /\ [](pc = "done" => answered \subseteq DOMAIN full_translated_dict)

\* C8 witness: DONE after the backend failed calls and answered others
C8_Witness ==
  /\ pc = "done"
  /\ faults = MaxFaults
  /\ last_outcome \in FailureKinds
  /\ answered # {}

\* C9: the failing attempt on which a batch of TRANSLATING has used up its
\* retries appends one entry to failed_batches, with the batch id, the keys
\* of the batch and that attempt's error, leaves completed_batches as it
\* is, and goes on to the next batch.
C9_ExhaustedBatchRecorded ==
  [][(InLoop /\ ~Skipped /\ retry = BATCH_MAX_RETRIES /\ last_outcome' \in FailureKinds)
       => /\ recovery_state'.failed_batches =
               Append(recovery_state.failed_batches,
                      [batch_id |-> BatchId(batch_index),
                       keys |-> [i \in 1..Len(batches[batch_index]) |->
                                   batches[batch_index][i][1]],
                       error |-> last_outcome'])
          /\ recovery_state'.completed_batches = recovery_state.completed_batches
          /\ batch_index' = batch_index + 1
          /\ retry' = 0
          /\ pc' = "save_open" /\ after' = "loop"]_vars

\* C9 witness: the batch after one that used up its retries is up
C9_Witness ==
  /\ InLoop
  /\ batch_index >= 2
  /\ retry = 0
  /\ \E i \in 1..Len(recovery_state.failed_batches) :
        /\ recovery_state.failed_batches[i].batch_id = BatchId(batch_index - 1)
        /\ Len(recovery_state.failed_batches[i].keys) >= 1

\* C10: a job that is DONE with no fragment missing returns a result whose
\* keys are the keys of the FragmentSet.
C10_ResultKeysAreFragmentKeys ==
  (pc = "done" /\ missing_keys = {}) => DOMAIN full_translated_dict = DOMAIN text_dict

\* the fragments a result resolves
Resolved == DOMAIN full_translated_dict \cap DOMAIN text_dict

\* C11: in the result of a job that is DONE, fresh or resumed, every
\* resolved fragment whose representative is resolved has the translation
\* of its representative.
C11_DuplicatesCarryRepresentativeTranslation ==
  pc = "done" =>
    \A k \in Resolved :
       duplicates_map[k] \in Resolved
         => full_translated_dict[k] = full_translated_dict[duplicates_map[k]]

\* C12: FINAL_SWEEP issues no call when the re-expanded result lacks no
\* fragment of the document, and otherwise one call whose payload keys are
\* the fragments it lacks; no final call is issued anywhere else.
C12_FinalSweepAsksForTheMissing ==
  /\ [](/\ Len(sweep_calls) <= 1
        /\ pc \notin {"save_open", "save_write", "done"} => sweep_calls = <<>>)
  /\ [][(pc = "sweep" /\ pc' # "crashed")
          => sweep_calls' =
               IF DOMAIN text_dict \ DOMAIN full_translated_dict = {}
               THEN sweep_calls
               ELSE Append(sweep_calls, DOMAIN text_dict \ DOMAIN full_translated_dict)]_vars

\* C12 witness: the final call asked for some fragments, not for all, and
\* was answered
C12_Witness ==
  /\ pc = "done"
  /\ Len(sweep_calls) = 1
  /\ sweep_calls[1] # DOMAIN text_dict
  /\ last_outcome = "ok"
  /\ sweep_calls[1] \subseteq DOMAIN full_translated_dict

\* C13: translate_batch in TRANSLATING, with retry ceiling
\* BATCH_MAX_RETRIES, issues at most BATCH_MAX_RETRIES + 1 backend calls for
\* one batch; the first attempt whose response parses ends it, and the batch
\* is then appended to completed_batches and not to failed_batches.
C13_BoundedAttemptsFirstSuccessCompletes ==
  /\ [](pc \in Running =>
          /\ Phase = "translating" => calls <= BATCH_MAX_RETRIES + 1
          /\ Phase = "reconciling" => calls <= SUB_MAX_RETRIES + 1)
  /\ [][(InLoop /\ ~Skipped /\ pc' # "crashed")
          => /\ calls' = retry + 1
             /\ last_outcome' = "ok"
                  => /\ recovery_state'.completed_batches =
                          Append(recovery_state.completed_batches, BatchId(batch_index))
                     /\ recovery_state'.failed_batches = recovery_state.failed_batches
                     /\ batch_index' = batch_index + 1
                     /\ retry' = 0
             /\ last_outcome' # "ok" /\ retry < BATCH_MAX_RETRIES
                  => /\ retry' = retry + 1
                     /\ batch_index' = batch_index
                     /\ recovery_state' = recovery_state]_vars

\* C13 witness: a batch completed on its third attempt and was not recorded
\* as failed
C13_Witness ==
  /\ pc = "loop"
  /\ calls = BATCH_MAX_RETRIES + 1
  /\ last_outcome = "ok"
  /\ batch_index >= 2
  /\ BatchId(batch_index - 1) \in Range(recovery_state.completed_batches)
  /\ recovery_state.failed_batches = <<>>
  /\ crashes = 0

\* A parsed response that leaves out keys of its batch completes the batch:
\* the batch is not retried and not recorded as failed.
OmissionCompletesBatch ==
  [][(InLoop /\ ~Skipped /\ pc' # "crashed" /\ omitted' # omitted)
       => /\ recovery_state'.completed_batches =
               Append(recovery_state.completed_batches, BatchId(batch_index))
          /\ recovery_state'.failed_batches = recovery_state.failed_batches
          /\ batch_index' = batch_index + 1
          /\ retry' = 0]_vars

\* On a run that was never killed and whose responses held no key that was
\* not asked for, the keys left out are missing when FINAL_SWEEP begins.
OmittedMissingWithoutStrayKeys ==
  (pc = "sweep" /\ crashes = 0 /\ DOMAIN unique_translated_dict \subseteq answered)
    => omitted \subseteq missing_keys

\* C14: a batch whose parsed response leaves out keys of the batch is
\* recorded as completed, neither retried nor recorded as failed, and every
\* key left out is in the missing set FINAL_SWEEP computes.
C14_OmittedKeysAreMissingAtSweep ==
  /\ OmissionCompletesBatch
  /\ [](pc = "sweep" => omitted \subseteq missing_keys)

\* position of a key in an ordered dict
IndexOf(items, k) == CHOOSE i \in 1..Len(items) : items[i][1] = k

\* C15: deduplicate_content maps every key to the first key, in the order of
\* the dict, that has the same text; a representative maps to itself;
\* duplicates_map is defined on exactly the keys of the dict; unique_content
\* holds exactly the representatives with their texts, one per distinct text.
C15_DedupeMapsToFirstWithSameText ==
  pc = "part_done" =>
    LET items == part_in.dict
        dd == deduplicate_content(items)
        text == DictOf(items)
        reps == {dd.duplicates_map[k] : k \in KeysOf(items)}
    IN /\ DOMAIN dd.duplicates_map = KeysOf(items)
       /\ \A k \in KeysOf(items) :
             /\ dd.duplicates_map[k] \in KeysOf(items)
             /\ text[dd.duplicates_map[k]] = text[k]
             /\ \A j \in KeysOf(items) :
                   text[j] = text[k]
                     => IndexOf(items, dd.duplicates_map[k]) <= IndexOf(items, j)
             /\ dd.duplicates_map[dd.duplicates_map[k]] = dd.duplicates_map[k]
       /\ KeysOf(dd.unique_content) = reps
       /\ Len(dd.unique_content) = Cardinality({text[k] : k \in KeysOf(items)})
       /\ \A i \in 1..Len(dd.unique_content) :
             dd.unique_content[i][2] = text[dd.unique_content[i][1]]

\* C15 witness: a text met a second time after another text, and two
\* distinct texts
C15_Witness ==
  /\ pc = "part_done"
  /\ Len(part_in.dict) = 3
  /\ part_in.dict[1][2] = part_in.dict[3][2]
  /\ part_in.dict[1][2] # part_in.dict[2][2]
  /\ deduplicate_content(part_in.dict).duplicates_map[part_in.dict[3][1]]
       = part_in.dict[1][1]

(***************************************************************************)
(* json.loads and repair_json on a written text.  A text is the sequence   *)
(* of its tokens, white space left out: the braces, the comma, the colon,  *)
(* the double quote, and words of letters and digits.  The texts are the   *)
(* objects a backend writes, "key": "value" entries between braces, with   *)
(* the slips of a sloppy writer: a key without its quotes, a string        *)
(* without its closing quote, a comma after the last entry.                *)
(***************************************************************************)
LBRACE == "{"
RBRACE == "}"
COMMA == ","
COLON == ":"
QUOTE == "\""
BACKSLASH == "\\"

IsWord(tok) == tok \notin {LBRACE, RBRACE, COMMA, COLON, QUOTE, BACKSLASH}

\* an entry as it is written
Entry(e) ==
  (IF e.key_quoted THEN <<QUOTE, e.key, QUOTE>> ELSE <<e.key>>)
    \o <<COLON, QUOTE>> \o e.value \o (IF e.terminated THEN <<QUOTE>> ELSE <<>>)

RECURSIVE Entries(_)
Entries(es) ==
  IF es = <<>> THEN <<>>
  ELSE IF Len(es) = 1 THEN Entry(es[1])
  ELSE Entry(es[1]) \o <<COMMA>> \o Entries(Tail(es))

TextOf(response) ==
  <<LBRACE>> \o Entries(response.entries)
    \o (IF response.trailing_comma THEN <<COMMA>> ELSE <<>>) \o <<RBRACE>>

\* the same response written without a slip
Corrected(response) ==
  [entries |-> [i \in 1..Len(response.entries) |->
                  [response.entries[i] EXCEPT !.key_quoted = TRUE, !.terminated = TRUE]],
   trailing_comma |-> FALSE]

\* the position of the first double quote at or after i, Len(t) + 1 if none
RECURSIVE NextQuote(_, _)
NextQuote(t, i) ==
  IF i > Len(t) THEN Len(t) + 1
  ELSE IF t[i] = QUOTE THEN i
  ELSE NextQuote(t, i + 1)

\* a JSON string starting at i: its content and the position after it; a
\* string that starts at i and is never closed is unterminated
ReadString(t, i) ==
  IF i <= Len(t) /\ t[i] = QUOTE /\ NextQuote(t, i + 1) <= Len(t)
  THEN [ok |-> TRUE, content |-> SubSeq(t, i + 1, NextQuote(t, i + 1) - 1),
        next |-> NextQuote(t, i + 1) + 1, unterminated |-> FALSE]
  ELSE [ok |-> FALSE, content |-> <<>>, next |-> i,
        unterminated |-> i <= Len(t) /\ t[i] = QUOTE]

\* json.JSONDecodeError; at is where the string starts if the message is
\* "Unterminated string starting at", 0 with every other message
JSONDecodeError(at) == [ok |-> FALSE, pairs |-> <<>>, at |-> at]

\* "key": "value" entries separated by commas up to the closing brace
RECURSIVE LoadPairs(_, _, _)
LoadPairs(t, i, acc) ==
  LET key == ReadString(t, i)
      value == ReadString(t, key.next + 1)
  IN IF ~key.ok THEN JSONDecodeError(IF key.unterminated THEN i ELSE 0)
     ELSE IF key.next > Len(t) \/ t[key.next] # COLON THEN JSONDecodeError(0)
     ELSE IF ~value.ok
     THEN JSONDecodeError(IF value.unterminated THEN key.next + 1 ELSE 0)
     ELSE IF value.next > Len(t) THEN JSONDecodeError(0)
     ELSE IF t[value.next] = COMMA
     THEN LoadPairs(t, value.next + 1, Append(acc, <<key.content, value.content>>))
     ELSE IF t[value.next] = RBRACE /\ value.next = Len(t)
     THEN Loaded(Append(acc, <<key.content, value.content>>))
     ELSE JSONDecodeError(0)

\* json.loads of an object of strings
json_loads(t) ==
  IF Len(t) < 2 \/ t[1] # LBRACE THEN JSONDecodeError(0)
  ELSE IF Len(t) = 2 THEN (IF t[2] = RBRACE THEN Loaded(<<>>) ELSE JSONDecodeError(0))
  ELSE LoadPairs(t, 2, <<>>)

\* if "Unterminated string" in str(e): the character at the line and column
\* of the message is the quote the string starts with, which is replaced by
\* \" (the branch that appends a quote to the line is never taken)
EscapeUnterminated(t, e) ==
  IF e.at = 0 THEN t
  ELSE SubSeq(t, 1, e.at - 1) \o <<BACKSLASH>> \o SubSeq(t, e.at, Len(t))

\* re.sub(r',\s*}', '}', json_content)
RECURSIVE RemoveTrailingCommas(_)
RemoveTrailingCommas(t) ==
  IF t = <<>> THEN <<>>
  ELSE IF Len(t) >= 2 /\ t[1] = COMMA /\ t[2] = RBRACE
  THEN RemoveTrailingCommas(Tail(t))
  ELSE <<t[1]>> \o RemoveTrailingCommas(Tail(t))

\* re.sub(r'([a-zA-Z0-9_]+):', fix_property_names, json_content): a word
\* right before a colon is put between quotes, wherever it stands
RECURSIVE QuotePropertyNames(_)
QuotePropertyNames(t) ==
  IF t = <<>> THEN <<>>
  ELSE IF Len(t) >= 2 /\ IsWord(t[1]) /\ t[2] = COLON
  THEN <<QUOTE, t[1], QUOTE>> \o QuotePropertyNames(Tail(t))
  ELSE <<t[1]>> \o QuotePropertyNames(Tail(t))

\* re.finditer(r'"([^"]+)"\s*:\s*"([^"]*)"', original_content), from i on
RECURSIVE FindPairs(_, _, _)
FindPairs(t, i, acc) ==
  IF i > Len(t) THEN acc
  ELSE LET key == ReadString(t, i)
           value == ReadString(t, key.next + 1)
       IN IF key.ok /\ key.content # <<>> /\ key.next <= Len(t)
             /\ t[key.next] = COLON /\ value.ok
          THEN FindPairs(t, value.next, Append(acc, <<key.content, value.content>>))
          ELSE FindPairs(t, i + 1, acc)

\* a slip: repair_json without its pass over the property names
repair_json_text_unquoted(original_content) ==
  With(json_loads(original_content),
       LAMBDA e :
         IF e.ok THEN e
         ELSE With(RemoveTrailingCommas(EscapeUnterminated(original_content, e)),
                   LAMBDA json_content :
                     IF json_loads(json_content).ok THEN json_loads(json_content)
                     ELSE With(FindPairs(original_content, 1, <<>>),
                               LAMBDA result :
                                 IF result # <<>> THEN Loaded(result) ELSE Raised)))

\* repair_json on a written text.  The texts of the model hold one brace of
\* each kind, which leaves the balancing of the braces nothing to do.
repair_json_text(original_content) ==
  With(json_loads(original_content),
       LAMBDA e :
         IF e.ok THEN e
         ELSE With(QuotePropertyNames(
                     RemoveTrailingCommas(EscapeUnterminated(original_content, e))),
                   LAMBDA json_content :
                     IF json_loads(json_content).ok THEN json_loads(json_content)
                     ELSE With(FindPairs(original_content, 1, <<>>),
                               LAMBDA result :
                                 IF result # <<>> THEN Loaded(result) ELSE Raised)))

MaxEntries == 3

Values == {<<"x">>, <<"note", COLON, "x">>}

Responses ==
  UNION {[entries : [1..n -> [key : {KeyOrder[1], KeyOrder[2]}, value : Values,
                              key_quoted : BOOLEAN, terminated : BOOLEAN]],
          trailing_comma : BOOLEAN] : n \in 0..MaxEntries}

InitRepair ==
  /\ text_dict = EmptyDict
  /\ pc = "repair"
  /\ InitJob
  /\ InitServer
  /\ estimate_in = NoTexts
  /\ estimate_out = <<>>
  /\ part_in = NoCall
  /\ part_out = <<>>
  /\ parse_in = NoText
  /\ parse_out = NoParse
  /\ api_key = TRUE
  /\ repair_in \in Responses
  /\ repair_out = NoResult

RepairCall ==
  /\ pc = "repair"
  /\ repair_out' = repair_json_text(TextOf(repair_in))
  /\ pc' = "repair_done"
  /\ UNCHANGED <<text_dict, after, disk, recovery_state, locals, last_outcome, crashes,
                 faults, history, part_vars, parse_vars, api_key, repair_in,
                 web_vars, estimate_vars>>

NextRepair == RepairCall

SpecRepair == InitRepair /\ [][NextRepair]_vars

(***************************************************************************)
(* The parsing on its own, on any response text                            *)
(***************************************************************************)
InitParse ==
  /\ text_dict = EmptyDict
  /\ pc = "parse"
  /\ InitJob
  /\ InitServer
  /\ estimate_in = NoTexts
  /\ estimate_out = <<>>
  /\ part_in = NoCall
  /\ part_out = <<>>
  /\ parse_in \in ResponseTexts
  /\ parse_out = NoParse
  /\ api_key = TRUE
  /\ repair_in = NoResponse
  /\ repair_out = NoResult

ParseCall ==
  /\ pc = "parse"
  /\ parse_out' = parse_response(parse_in)
  /\ pc' = "parse_done"
  /\ UNCHANGED <<text_dict, after, disk, recovery_state, locals, last_outcome, crashes,
                 faults, history, part_vars, parse_in, api_key, repair_vars,
                 web_vars, estimate_vars>>

NextParse == ParseCall

SpecParse == InitParse /\ [][NextParse]_vars

StrategyOrder == <<"strict", "repair", "blocks", "regex">>

\* A response fails to parse only when json.loads, the repairs, the pattern
\* and the block extraction have all found nothing; the first strategy that
\* finds a mapping gives the result.
ParseFailsOnlyWhenAllFail ==
  pc = "parse_done" =>
    /\ ~parse_out.result.found
         => /\ {parse_out.tried[i] : i \in 1..Len(parse_out.tried)}
                 = {"strict", "repair", "regex", "blocks"}
            /\ ~parse_in.strict.found /\ ~parse_in.repaired.found
            /\ parse_in.pairs.keys = {}
            /\ ~parse_in.blocks.found \/ parse_in.blocks.keys = {}
    /\ parse_out.result.found
         => parse_out.result \in {parse_in.strict, parse_in.repaired, parse_in.pairs,
                                  parse_in.blocks}

\* C16: the strategies are tried in the order strict parse, repair pass,
\* block extraction, regex salvage, each only after those before it have
\* failed, and the parsing fails only after all four have been tried.
C16_StrategiesInStatedOrder ==
  pc = "parse_done" =>
    /\ parse_out.tried = SubSeq(StrategyOrder, 1, Len(parse_out.tried))
    /\ ~parse_out.result.found => parse_out.tried = StrategyOrder

\* C17: the duplicates map is computed and persisted before the first call to
\* the backend, and whatever is persisted afterwards, by a batch, a
\* sub-batch, the sweep or a resumed run, holds the same map: that of the
\* whole document.
DocumentDuplicatesMap == deduplicate_content(ItemsOf(text_dict)).duplicates_map

C17_DuplicatesMapComputedOnceBeforeCalls ==
  /\ [](/\ (calls > 0 \/ sweep_calls # <<>> \/ pc \in {"loop", "sub", "sweep"})
            => /\ recovery_state.has_duplicates_map
               /\ duplicates_map = recovery_state.duplicates_map
        /\ (pc \in Running /\ recovery_state.has_duplicates_map)
            => recovery_state.duplicates_map = DocumentDuplicatesMap
        /\ (disk.status = "valid" /\ disk.content.has_duplicates_map)
            => disk.content.duplicates_map = DocumentDuplicatesMap)
  /\ [][(/\ disk.status = "valid" /\ disk.content.has_duplicates_map
         /\ disk'.status = "valid")
          => /\ disk'.content.has_duplicates_map
             /\ disk'.content.duplicates_map = disk.content.duplicates_map]_vars

\* a resumed run has finished: the file holds translations saved after the
\* resumption and the map of a document with a repeated text
C17_Witness ==
  /\ pc = "done"
  /\ crashes > 0
  /\ disk.status = "valid"
  /\ disk.content.has_duplicates_map
  /\ \E k \in DOMAIN disk.content.duplicates_map : disk.content.duplicates_map[k] # k
  /\ killed_in \in {"translating", "reconciling"}
  /\ sweep_calls # <<>>

\* C18: the partitioner called on an empty set of fragments returns the
\* empty sequence of batches and does not fail.
C18_EmptyInputYieldsNoBatches ==
  (pc # "part" /\ part_in.dict = <<>>) => (pc = "part_done" /\ part_out = <<>>)

\* What the estimate of the code is: 0 for None alone, and len // 4 + 1 for
\* every string, the empty one included.
EstimateIsQuarterLengthPlusOne ==
  pc = "part_done" =>
    \A i \in 1..Len(part_in.dict) :
      LET text == part_in.dict[i][2]
      IN /\ estimate_tokens(text) \in Nat
         /\ text = None <=> estimate_tokens(text) = 0
         /\ text # None => /\ estimate_tokens(text) >= 1
                           /\ TextLen(text) < CHARS_PER_TOKEN * estimate_tokens(text)
                           /\ TextLen(text) >= CHARS_PER_TOKEN * (estimate_tokens(text) - 1)

\* C19: the estimate of a text is a non-negative integer, 0 for None and for
\* the empty string, and at least 1 for every non-empty text.
C19_EstimateZeroForNullAndEmpty ==
  pc = "part_done" =>
    \A i \in 1..Len(part_in.dict) :
      LET text == part_in.dict[i][2]
      IN /\ estimate_tokens(text) \in Nat
         /\ text \in {None, ""} => estimate_tokens(text) = 0
         /\ text \notin {None, ""} => estimate_tokens(text) >= 1

\* C20: without a backend key translate_text fails at its start with a
\* configuration error: no recovery file is created, no call to the backend
\* is made, nothing is retried, and the job goes no further.
C20_NoKeyFailsAtStart ==
  /\ [](~api_key
         => /\ pc \in {"start", "config_error"}
            /\ disk = NoFile
            /\ recovery_state = NoState
            /\ calls = 0 /\ retry = 0 /\ sweep_calls = <<>>
            /\ in_flight = {} /\ answered = {} /\ recorded = {}
            /\ last_outcome = "none")
  /\ [](pc = "config_error" => ~api_key)
  /\ [][pc = "config_error" => pc' = "config_error"]_vars

C20_Witness ==
  /\ pc = "config_error"
  /\ ~api_key
  /\ DOMAIN text_dict # {}

\* the dict of the pairs read: a later pair of a key replaces an earlier one
DictOfPairs(pairs) ==
  [k \in KeysOf(pairs) |->
     LET last == CHOOSE j \in 1..Len(pairs) :
                   /\ pairs[j][1] = k
                   /\ \A i \in (j + 1)..Len(pairs) : pairs[i][1] # k
     IN pairs[last][2]]

\* the slips of a response
Unquoted(response) ==
  {i \in 1..Len(response.entries) : ~response.entries[i].key_quoted}

Unterminated(response) ==
  {i \in 1..Len(response.entries) : ~response.entries[i].terminated}

Valid(response) ==
  Unquoted(response) = {} /\ Unterminated(response) = {} /\ ~response.trailing_comma

\* the mapping a response encodes
Encoded(response) ==
  DictOfPairs([i \in 1..Len(response.entries) |->
            <<<<response.entries[i].key>>, response.entries[i].value>>])

\* What the parsing does recover: a valid text gives exactly the mapping it
\* encodes, and so does a text whose only slips are unquoted keys and a
\* trailing comma, provided no value holds a word right before a colon.
ValidTextParsesExactly ==
  pc = "repair_done" =>
    /\ Valid(repair_in)
         => repair_out.ok /\ DictOfPairs(repair_out.pairs) = Encoded(repair_in)
    /\ (/\ Unterminated(repair_in) = {}
        /\ \A i \in 1..Len(repair_in.entries) : repair_in.entries[i].value = <<"x">>)
         => repair_out.ok /\ DictOfPairs(repair_out.pairs) = Encoded(repair_in)

\* C21: a valid text parses to exactly the mapping it encodes; a text with
\* one unterminated string, one trailing comma and one unquoted key is
\* repaired to the full mapping, that of the strict parse of the corrected
\* text.
C21_RepairRecoversFullMapping ==
  pc = "repair_done" =>
    /\ Valid(repair_in)
         => repair_out.ok /\ DictOfPairs(repair_out.pairs) = Encoded(repair_in)
    /\ (/\ Cardinality(Unterminated(repair_in)) = 1
        /\ Cardinality(Unquoted(repair_in)) = 1
        /\ repair_in.trailing_comma)
         => /\ repair_out.ok
            /\ DictOfPairs(repair_out.pairs)
                 = DictOfPairs(json_loads(TextOf(Corrected(repair_in))).pairs)

\* C22: on a resumed run, one whose recovery state holds translations, the
\* batches made for the batch loop hold exactly the representatives that have
\* no translation yet, and so no duplicate that is not a representative.
BatchKeys(bs) == UNION {KeysOf(bs[i]) : i \in 1..Len(bs)}

Representatives == {duplicates_map[k] : k \in DOMAIN duplicates_map}

C22_ResumedBatchesAreUntranslatedRepresentatives ==
  [][(/\ pc = "partition"
      /\ pc' \in {"loop", "sweep"}
      /\ DOMAIN recovery_state.translated_items # {})
       => (IF pc' = "loop" THEN BatchKeys(batches') ELSE {})
            = Representatives \ DOMAIN recovery_state.translated_items]_vars

\* C23: every sub-batch made of a failed batch of more than one fragment
\* holds strictly fewer fragments than the failed batch.
C23_SubBatchesAreSmaller ==
  [][(/\ pc = "reconcile"
      /\ pc' = "sub"
      /\ Len(failed_list[failed_index].keys) > 1)
       => \A i \in 1..Len(sub_batches') :
             Len(sub_batches'[i]) < Len(failed_list[failed_index].keys)]_vars

\* C24: a translation is written once: the value a fragment id has in
\* translated_items, in memory or in the recovery file, is not changed by
\* any later batch, sub-batch or sweep, whatever the responses hold.
KeptIn(old, new) == \A k \in DOMAIN old \cap DOMAIN new : new[k] = old[k]

C24_TranslationsAreWriteOnce ==
  [][/\ KeptIn(recovery_state.translated_items, recovery_state'.translated_items)
     /\ (disk.status = "valid" /\ disk'.status = "valid")
          => KeptIn(disk.content.translated_items, disk'.content.translated_items)]_vars

\* with a backend that answers with the keys it was asked, and only those,
\* no value is ever replaced
WriteOnceWithFaithfulResponses ==
  [][stub_run' => KeptIn(recovery_state.translated_items,
                         recovery_state'.translated_items)]_vars

\* C25: in no state of a fresh or of a resumed run is a batch id both in
\* completed_batches and in an entry of failed_batches.
FailedIds(state) == {state.failed_batches[i].batch_id : i \in 1..Len(state.failed_batches)}

C25_CompletedAndFailedDisjoint ==
  /\ Range(recovery_state.completed_batches) \cap FailedIds(recovery_state) = {}
  /\ disk.status = "valid"
       => Range(disk.content.completed_batches) \cap FailedIds(disk.content) = {}

\* C26: every payload sent to the backend, by the batch loop, by the
\* reconciliation and by the final sweep, is within max_input_tokens, its
\* text tokens and the prompt tokens summed, unless it is one fragment that
\* is over the ceiling by itself.
WithinCeiling(payload) ==
  \/ SumTextTokens(payload) + PROMPT_TOKENS <= MAX_INPUT_TOKENS
  \/ /\ Len(payload) = 1
     /\ estimate_tokens(payload[1][2]) + PROMPT_TOKENS > MAX_INPUT_TOKENS

C26_EveryPayloadWithinCeiling ==
  [][pc' # "crashed" =>
       /\ (InLoop /\ ~Skipped) => WithinCeiling(batches[batch_index])
       /\ InSub => WithinCeiling(sub_batches[sub_index])
       /\ (pc = "sweep" /\ missing_keys # {}) => WithinCeiling(missing_dict)]_vars

\* the payloads of the batch loop and of the reconciliation are within it
BatchPayloadsWithinCeiling ==
  [][pc' # "crashed" =>
       /\ (InLoop /\ ~Skipped) => WithinCeiling(batches[batch_index])
       /\ InSub => WithinCeiling(sub_batches[sub_index])]_vars

(***************************************************************************)
(* The web front-end on its own                                            *)
(***************************************************************************)
InitWeb ==
  /\ text_dict = EmptyDict
  /\ pc = "web"
  /\ InitJob
  /\ InitServer
  /\ estimate_in = NoTexts
  /\ estimate_out = <<>>
  /\ part_in = NoCall
  /\ part_out = <<>>
  /\ parse_in = NoText
  /\ parse_out = NoParse
  /\ api_key = TRUE
  /\ repair_in = NoResponse
  /\ repair_out = NoResult

NextWeb ==
  /\ \E r \in Requests :
       \/ Arrive(r)
       \/ CheckRunning(r)
       \/ CheckForm(r)
       \/ StartThread(r)
       \/ ThreadBegin(r)
       \/ ThreadEnd(r)
  /\ UNCHANGED <<text_dict, pc, after, disk, recovery_state, locals, last_outcome, crashes,
                 faults, history, part_vars, parse_vars, api_key, repair_vars,
                 estimate_vars>>

SpecWeb == InitWeb /\ [][NextWeb]_vars

Active == {r \in Requests : thread_pc[r] \in {"started", "translating"}}

\* C27: through the web front-end at most one translation job runs at any
\* time: a request that arrives while a job is started and not finished
\* starts no second job thread.
C27_AtMostOneJobThread ==
  /\ [](Cardinality(Active) <= 1)
  /\ [][\A r \in Requests :
          (thread_pc[r] = "none" /\ thread_pc'[r] = "started") => Active = {}]_vars

\* what the flag does ensure: a request that finds it set starts nothing
RefusedWhileFlagSet ==
  [][\A r \in Requests :
       (request_pc[r] = "check" /\ request_pc'[r] # "check" /\ translation_state.running)
         => request_pc'[r] = "refused"]_vars

\* C28: the partitioner outputs no empty batch, and a fragment that does
\* not fit max_input_tokens together with the prompt tokens is alone in its
\* batch.
C28_NoEmptyBatchOversizedAlone ==
  pc = "part_done" =>
    \A i \in 1..Len(part_out) :
       /\ part_out[i] # <<>>
       /\ \A j \in 1..Len(part_out[i]) :
            (item_tokens(part_out[i][j]) + part_in.prompt_tokens > part_in.max_input_tokens)
              => Len(part_out[i]) = 1

\* an oversized fragment alone in its batch, beside a batch of several
\* fragments
C28_Witness ==
  /\ pc = "part_done"
  /\ \E i \in 1..Len(part_out) :
       /\ Len(part_out[i]) = 1
       /\ item_tokens(part_out[i][1]) + part_in.prompt_tokens > part_in.max_input_tokens
  /\ \E i \in 1..Len(part_out) : Len(part_out[i]) >= 2

(***************************************************************************)
(* The wide-script estimate on its own, on two texts of one length         *)
(***************************************************************************)
MaxLength == 8

InitEstimate ==
  /\ text_dict = EmptyDict
  /\ pc = "estimate"
  /\ InitJob
  /\ InitServer
  /\ \E n \in 0..MaxLength : estimate_in \in [length : {n}, cjk_a : 0..n, cjk_b : 0..n]
  /\ estimate_out = <<>>
  /\ part_in = NoCall
  /\ part_out = <<>>
  /\ parse_in = NoText
  /\ parse_out = NoParse
  /\ api_key = TRUE
  /\ repair_in = NoResponse
  /\ repair_out = NoResult

EstimateCall ==
  /\ pc = "estimate"
  /\ estimate_out' =
       <<estimate_tokens_cjk(estimate_in.length - estimate_in.cjk_a, estimate_in.cjk_a),
         estimate_tokens_cjk(estimate_in.length - estimate_in.cjk_b, estimate_in.cjk_b)>>
  /\ pc' = "estimate_done"
  /\ UNCHANGED <<text_dict, after, disk, recovery_state, locals, last_outcome, crashes,
                 faults, history, part_vars, parse_vars, api_key, repair_vars, web_vars,
                 estimate_in>>

NextEstimate == EstimateCall

SpecEstimate == InitEstimate /\ [][NextEstimate]_vars

\* C29: of two texts of equal length, the one with more wide-script
\* characters has an estimate at least as large as the other's.
C29_WideNeverCheaper ==
  pc = "estimate_done" =>
    (estimate_in.cjk_a >= estimate_in.cjk_b => estimate_out[1] >= estimate_out[2])

\* what does hold: a text all of wide characters never costs less than a
\* narrow text of the same length
AllWideNeverCheaperThanAllNarrow ==
  pc = "estimate_done" =>
    ((estimate_in.cjk_a = estimate_in.length /\ estimate_in.cjk_b = 0)
       => estimate_out[1] >= estimate_out[2])

\* C30: progress is monotone.  No step of a run, first or resumed, takes a
\* key out of translated_items or a batch id out of completed_batches; what
\* a save writes over a valid recovery file holds all that the file held;
\* and the state of a run holds all that its recovery file holds, so that a
\* resumed run starts from the last state saved and grows from there.
Grown(old, new) ==
  /\ DOMAIN old.translated_items \subseteq DOMAIN new.translated_items
  /\ Range(old.completed_batches) \subseteq Range(new.completed_batches)

C30_ProgressIsMonotone ==
  /\ [][pc' # "crashed" => Grown(recovery_state, recovery_state')]_vars
  /\ [][(disk.status = "valid" /\ disk'.status = "valid")
          => Grown(disk.content, disk'.content)]_vars
  /\ []((disk.status = "valid" /\ pc \in Running) => Grown(disk.content, recovery_state))

\* a resumed run has finished after more batches than the killed run had
\* saved
C30_Witness ==
  /\ pc = "done"
  /\ crashes > 0
  /\ killed_in \in {"translating", "reconciling"}
  /\ Len(recovery_state.completed_batches) >= 2
  /\ Cardinality(DOMAIN recovery_state.translated_items) >= 2
  /\ disk = ValidFile(recovery_state)

\* C31: for a job that is DONE with every fragment id translated, the
\* progress the listing computes from its recovery file is exactly 100%,
\* also when the document holds a text more than once (stated for the
\* plainest job: a document that has fragments, a backend that answers with
\* the keys it is asked, no kill).
AllTranslated == DOMAIN text_dict \subseteq DOMAIN full_translated_dict

C31_DoneJobListedAtFullProgress ==
  (/\ pc = "done" /\ AllTranslated /\ disk.status = "valid"
   /\ DOMAIN text_dict # {} /\ stub_run /\ crashes = 0)
    => progress(disk.content) = 1000

\* what the listing does show: for a document without a repeated text whose
\* job is DONE with every id translated by a backend that answers with the
\* keys it is asked, 100%
DistinctTexts == \A k, h \in DOMAIN text_dict : text_dict[k] = text_dict[h] => k = h

FullProgressWithoutDuplicates ==
  (/\ pc = "done" /\ AllTranslated /\ disk.status = "valid"
   /\ DOMAIN text_dict # {} /\ DistinctTexts /\ stub_run /\ crashes = 0)
    => progress(disk.content) = 1000

\* What holds of the recovery files that can be read: a complete file with
\* translations holds the duplicates map, and a resumed run that has loaded
\* translations never lacks the key "duplicates_map".
CheckpointWithTranslationsHoldsMap ==
  /\ (disk.status = "valid" /\ DOMAIN disk.content.translated_items # {})
       => disk.content.has_duplicates_map
  /\ (pc \in Running /\ DOMAIN recovery_state.translated_items # {})
       => recovery_state.has_duplicates_map

\* C32: every persisted recovery file with translations holds the duplicates
\* map, so that the run resumed after a kill at any point, once translations
\* had been merged, loads the file and has the map it needs.
TranslatedBeforeKill ==
  \/ lost # {}
  \/ disk.status = "valid" /\ DOMAIN disk.content.translated_items # {}

C32_ResumedRunReadsDuplicatesMap ==
  /\ []CheckpointWithTranslationsHoldsMap
  /\ [][(pc = "crashed" /\ TranslatedBeforeKill)
          => /\ pc' = "dedupe"
             /\ DOMAIN recovery_state'.translated_items # {}
                  => recovery_state'.has_duplicates_map]_vars

====
